---- MODULE Spec2Model ----
(***************************************************************************)
(* A model of the TextLabel widget                                         *)
(* (packages/tldraw/src/state/shapes/shared/TextLabel.tsx).                *)
(*                                                                         *)
(* The state is the widget's last committed props, its two refs, the       *)
(* textarea it renders while editing (an uncontrolled DOM element: value,  *)
(* selection, focus), the style applied imperatively to the inner wrapper, *)
(* and the animation-frame callbacks still pending.  Every action is one   *)
(* host event (or one render commit with its effects) run to completion.   *)
(* `ev` records what the last action did (the calls it made, in order) and *)
(* `hist` keeps the two pieces of history the temporal claims speak about. *)
(***************************************************************************)
EXTENDS Integers, Sequences, FiniteSets, TLC

\* ---------------------------------------------------------------- bounds

\* Longest textarea value / text prop, in characters.
MaxLen == 2
\* Most animation-frame callbacks pending at once.
MaxFrames == 2

\* ------------------------------------------------------------------ text

CR == "CR"
LF == "LF"
\* One level of indentation.
INDENT == "IN"
Chars == {"a", CR, LF, INDENT}
Texts == UNION {[1..n -> Chars] : n \in 0..MaxLen}

Range(s) == {s[i] : i \in 1..Len(s)}
Count(s, x) == Cardinality({i \in 1..Len(s) : s[i] = x})
Max(a, b) == IF a > b THEN a ELSE b

\* TLDR.normalizeText: newline canonicalization, CRLF and lone CR become LF.
RECURSIVE normalizeText(_)
normalizeText(t) ==
    IF t = <<>> THEN <<>>
    ELSE IF Head(t) = CR
         THEN IF Len(t) >= 2 /\ t[2] = LF
              THEN <<LF>> \o normalizeText(Tail(Tail(t)))
              ELSE <<LF>> \o normalizeText(Tail(t))
         ELSE <<Head(t)>> \o normalizeText(Tail(t))

\* Number of characters before the start of the line that holds position pos
\* (a position is the number of characters to its left).
lineStart(v, pos) ==
    LET brk == {i \in 1..pos : v[i] = LF}
    IN  IF brk = {} THEN 0 ELSE CHOOSE i \in brk : \A j \in brk : j <= i

insertAt(v, i, c) == SubSeq(v, 1, i) \o <<c>> \o SubSeq(v, i + 1, Len(v))
removeAt(v, i) == SubSeq(v, 1, i - 1) \o SubSeq(v, i + 1, Len(v))

\* TextAreaUtils.indent: one indentation level is inserted at the start of
\* the current line; the selection moves with the text.
indent(ta) ==
    LET s == lineStart(ta.value, ta.selectionStart)
    IN  [value |-> insertAt(ta.value, s, INDENT),
         selectionStart |-> ta.selectionStart + 1,
         selectionEnd |-> ta.selectionEnd + 1]

\* TextAreaUtils.unindent: one indentation level is removed from the start
\* of the current line, if it has one; the selection moves with the text.
unindent(ta) ==
    LET s == lineStart(ta.value, ta.selectionStart)
    IN  IF s < Len(ta.value) /\ ta.value[s + 1] = INDENT
        THEN [value |-> removeAt(ta.value, s + 1),
              selectionStart |-> Max(s, ta.selectionStart - 1),
              selectionEnd |-> Max(s, ta.selectionEnd - 1)]
        ELSE ta

\* ----------------------------------------------------------------- props

NoCallback == "none"
Callbacks == {NoCallback, "cb1", "cb2"}
Fonts == {"f1", "f2"}
TextProps == {<<>>, <<"a">>, <<"a", LF>>}
Scales == {1, 2}
Offsets == {0, 1}

\* TextLabelProps with the defaults of the destructuring applied.
TextLabelProps ==
    [text : TextProps, font : Fonts, isDarkMode : BOOLEAN,
     onBlur : Callbacks, offsetY : Offsets, offsetX : Offsets,
     scale : Scales, isEditing : BOOLEAN]

\* The props the parent passes in each specification: the lifecycle props
\* (with the layout at its defaults), the keyboard's, the layout's, and the
\* props of a widget that stays in edit mode.
CoreProps ==
    {p \in TextLabelProps :
        /\ p.text = <<"a">> /\ p.font = "f1"
        /\ p.offsetY = 0 /\ p.offsetX = 0 /\ p.scale = 1}
KeyProps ==
    {p \in CoreProps :
        ~p.isDarkMode /\ p.onBlur \in {NoCallback, "cb1"}}
LayoutProps ==
    {p \in TextLabelProps :
        p.text \in {<<>>, <<"a", LF>>} /\ ~p.isDarkMode /\ p.onBlur = "cb1"}
EditingProps ==
    {p \in KeyProps : p.isEditing /\ p.onBlur = "cb1"}
\* Every prop but onBlur takes two values; at most one of them is away from
\* its value in BaseProps besides isEditing.
BaseProps ==
    [text |-> <<"a">>, font |-> "f1", isDarkMode |-> FALSE, onBlur |-> "cb1",
     offsetY |-> 0, offsetX |-> 0, scale |-> 1, isEditing |-> FALSE]
WideProps ==
    {p \in TextLabelProps :
        /\ p.text \in {<<>>, <<"a">>} /\ p.onBlur = "cb1"
        /\ Cardinality({n \in DOMAIN p \ {"isEditing"} : p[n] # BaseProps[n]}) <= 1}

PropNames ==
    {"text", "font", "isDarkMode", "onBlur", "offsetY", "offsetX", "scale",
     "isEditing"}

\* getTextLabelSize: the [width, height] of the text measured in the font.
FontSize(font) == IF font = "f1" THEN 1 ELSE 2
LineLengths(t) ==
    {i - lineStart(t, i) : i \in 0..Len(t)}
getTextLabelSize(t, font) ==
    <<FontSize(font) * (CHOOSE m \in LineLengths(t) : \A k \in LineLengths(t) : k <= m),
      FontSize(font) * (1 + Count(t, LF))>>

\* ----------------------------------------------------------------- state

VARIABLES
    props,          \* the props of the last committed render
    rIsMounted,     \* rIsMounted.current
    rInput,         \* rInput.current: "textarea" while one is mounted, else "null"
    textarea,       \* the mounted textarea: value, selectionStart, selectionEnd
    activeElement,  \* document.activeElement: "textarea" or "body"
    style,          \* rInnerWrapper.current.style: transform, width, height
    frames,         \* requestAnimationFrame callbacks scheduled and not yet run
    attached,       \* the widget is in the tree: mounted and not yet unmounted
    ev,             \* what the last action was and did
    hist            \* history: the exit started by Escape, a pending entry to edit mode

vars == <<props, rIsMounted, rInput, textarea, activeElement, style, frames,
          attached, ev, hist>>

NoTextArea == [value |-> <<>>, selectionStart |-> 0, selectionEnd |-> 0]

NoKey == [key |-> "none", metaKey |-> FALSE, ctrlKey |-> FALSE, shiftKey |-> FALSE]
Keys == {"Meta", "z", "c", "v", "a", "Escape", "Enter", "Tab"}
KeyEvents == [key : Keys, metaKey : BOOLEAN, ctrlKey : BOOLEAN, shiftKey : BOOLEAN]
Key(k, meta, ctrl, shift) ==
    [key |-> k, metaKey |-> meta, ctrlKey |-> ctrl, shiftKey |-> shift]
\* The keys of the lifecycle specification: exit, Enter, Tab, undo and redo.
CoreKeys ==
    {Key("Escape", FALSE, FALSE, FALSE), Key("Enter", FALSE, TRUE, FALSE),
     Key("Enter", FALSE, FALSE, FALSE), Key("Tab", FALSE, FALSE, FALSE),
     Key("Tab", FALSE, FALSE, TRUE), Key("z", TRUE, FALSE, FALSE),
     Key("z", TRUE, FALSE, TRUE)}
\* The keys of the text specification: the ones that change the value.
\* The keys that act and some that do not.
WideKeys ==
    CoreKeys \cup {Key("a", FALSE, FALSE, FALSE), Key("c", TRUE, FALSE, FALSE),
                   Key("c", FALSE, TRUE, FALSE), Key("Meta", TRUE, FALSE, FALSE)}
TextKeys ==
    {Key("Tab", FALSE, FALSE, FALSE), Key("Tab", FALSE, FALSE, TRUE),
     Key("z", TRUE, FALSE, FALSE)}
\* The values the user's input produces where the text itself is not the
\* subject: the empty text and the single characters.
ShortTexts == {t \in Texts : Len(t) <= 1}

\* The part of the state the handlers read and write, with the calls made so far.
World ==
    [textarea |-> textarea, rInput |-> rInput, activeElement |-> activeElement,
     rIsMounted |-> rIsMounted, trace |-> <<>>, changes |-> <<>>]

log(w, call) == [w EXCEPT !.trace = Append(@, call)]

\* ------------------------------------------------------------- handlers

\* handleChange handing the raw value on.
RawDelivered(value) == value

\* The value handleChange hands to onChange.
ChangeDelivered(value) == normalizeText(value)

\* handleChange
handleChange(w) ==
    [w EXCEPT !.trace = @ \o <<"handleChange", "onChange">>,
              !.changes = Append(@, [via |-> "handleChange",
                                     raw |-> w.textarea.value,
                                     delivered |-> ChangeDelivered(w.textarea.value)])]

\* HTMLTextAreaElement.select()
select(w) ==
    [w EXCEPT !.textarea.selectionStart = 0,
              !.textarea.selectionEnd = Len(w.textarea.value),
              !.trace = Append(@, "select")]

\* handleFocus without the test of rIsMounted.current.
handleFocusUnmounted(w, isEditing) ==
    LET w1 == log(w, "handleFocus")
    IN  IF isEditing /\ w1.activeElement = "textarea" THEN select(w1) ELSE w1

\* handleFocus
handleFocus(w, isEditing) ==
    LET w1 == log(w, "handleFocus")
    IN  IF ~isEditing THEN w1
        ELSE IF ~w1.rIsMounted THEN w1
        ELSE IF w1.activeElement = "textarea" THEN select(w1)
        ELSE w1

\* HTMLElement.focus(): a focus event fires if the element was not focused.
focus(w, isEditing) ==
    IF w.activeElement = "textarea" THEN w
    ELSE handleFocus([w EXCEPT !.activeElement = "textarea"], isEditing)

\* onBlur() called without the optional chaining: calling a callback that
\* is absent throws.
plainCall(w, onBlur) ==
    IF onBlur # NoCallback THEN log(w, "onBlur") ELSE log(w, "TypeError")

\* onBlur?.(): the callback is called if one was supplied.
optionalCall(w, onBlur) ==
    IF onBlur # NoCallback THEN log(w, "onBlur") ELSE w

\* handleBlur leaving the selection as it is.
KeepSelection(ta) == ta

\* The selection handleBlur leaves.
BlurSelection(ta) == [ta EXCEPT !.selectionStart = 0, !.selectionEnd = 0]

\* handleBlur
handleBlur(w, onBlur) ==
    LET w1 == [w EXCEPT !.textarea = BlurSelection(@),
                        !.trace = @ \o <<"handleBlur", "setSelectionRange">>]
    IN  optionalCall(w1, onBlur)

\* HTMLElement.blur(): a blur event fires if the element was focused.
blur(w, onBlur) ==
    IF w.activeElement = "textarea"
    THEN handleBlur([w EXCEPT !.activeElement = "body"], onBlur)
    ELSE w

\* handlePointerDown with its test inverted.
PointerDownStopsWhenIdle(isEditing) == ~isEditing

\* handlePointerDown: whether the event's propagation is stopped.
PointerDownStops(isEditing) == isEditing

\* handlePointerDown
handlePointerDown(w, isEditing) ==
    IF PointerDownStops(isEditing)
    THEN log(log(w, "handlePointerDown"), "stopPropagation")
    ELSE log(w, "handlePointerDown")

\* The first condition without its test of metaKey.
NotMetaKeyOnly(e) == ~(e.key = "Meta")

\* The first condition letting Ctrl-modified keys through as well.
NotMetaNorCtrl(e) == ~(e.key = "Meta" \/ e.metaKey \/ e.ctrlKey)

\* handleKeyDown, first condition.
NotMeta(e) == ~(e.key = "Meta" \/ e.metaKey)
\* The undo/redo branch taking Cmd+Z only, not Cmd+Shift+Z.
IsUndoOnly(e) == e.key = "z" /\ e.metaKey /\ ~e.shiftKey

\* handleKeyDown, the undo/redo branch.
IsUndoRedo(e) == e.key = "z" /\ e.metaKey
\* The exit branch without Cmd+Enter.
IsExitCtrlOnly(e) == e.key = "Escape" \/ (e.key = "Enter" /\ e.ctrlKey)

\* handleKeyDown, the exit branch.
IsExit(e) == e.key = "Escape" \/ (e.key = "Enter" /\ (e.ctrlKey \/ e.metaKey))
\* The Tab branch taking the Enter key as well.
IsTabOrEnter(e) == e.key \in {"Tab", "Enter"}

\* handleKeyDown, the Tab branch.
IsTab(e) == e.key = "Tab"

\* document.execCommand('undo' | 'redo'): the browser's history decides the
\* value the focused textarea gets (v); a change of value fires a text-change
\* event.
execCommand(w, cmd, v) ==
    LET w1 == log(w, cmd)
    IN  IF v = w.textarea.value THEN w1
        ELSE handleChange([w1 EXCEPT !.textarea =
                 [value |-> v, selectionStart |-> Len(v), selectionEnd |-> Len(v)]])

\* The Tab branch indenting whatever the Shift key.
TabEditIndentOnly(w, e) ==
    [log(w, "indent") EXCEPT !.textarea = indent(w.textarea)]

\* The Tab branch's edit.
TabEdit(w, e) ==
    IF e.shiftKey
    THEN [log(w, "unindent") EXCEPT !.textarea = unindent(w.textarea)]
    ELSE [log(w, "indent") EXCEPT !.textarea = indent(w.textarea)]

\* The Tab branch's onChange call.
TabChange(w) ==
    [w EXCEPT !.trace = Append(@, "onChange"),
              !.changes = Append(@, [via |-> "handleKeyDown",
                                     raw |-> w.textarea.value,
                                     delivered |-> normalizeText(w.textarea.value)])]

\* handleKeyDown
handleKeyDown(w, e, onBlur, v) ==
    LET w0 == log(w, "handleKeyDown")
        w1 == IF NotMeta(e) THEN log(w0, "stopPropagation") ELSE w0
    IN  IF ~NotMeta(e) /\ IsUndoRedo(e)
        THEN log(log(execCommand(w0, IF e.shiftKey THEN "redo" ELSE "undo", v),
                     "stopPropagation"), "preventDefault")
        ELSE IF IsExit(e) THEN blur(log(w1, "blur()"), onBlur)
        ELSE IF IsTab(e) THEN TabChange(TabEdit(log(w1, "preventDefault"), e))
        ELSE w1

\* The frame callback focusing without selecting.
frameFocusOnly(w, isEditing) ==
    IF w.rInput = "textarea"
    THEN focus(log(w, "focus()"), isEditing)
    ELSE w

\* The frame callback focusing and selecting without testing rInput.current.
frameFocusUnchecked(w, isEditing) ==
    select(focus(log(w, "focus()"), isEditing))

\* The requestAnimationFrame callback of the edit-mode effect.
frameFocus(w, isEditing) ==
    IF w.rInput = "textarea"
    THEN select(focus(log(w, "focus()"), isEditing))
    ELSE w

frameCallback(w, isEditing) ==
    frameFocus([w EXCEPT !.rIsMounted = TRUE, !.trace = Append(@, "frame")], isEditing)

\* ------------------------------------------------------------- rendering

\* The transform with the offsets exchanged.
TransformSwapped(p) == <<"scale", p.scale, p.scale, "translate", p.offsetY, p.offsetX>>

\* The transform the layout effect writes.
Transform(p) == <<"scale", p.scale, p.scale, "translate", p.offsetX, p.offsetY>>

\* The layout effect's body.
applyStyle(p) ==
    LET size == getTextLabelSize(p.text, p.font)
    IN  [transform |-> Transform(p), width |-> size[1], height |-> size[2]]

\* The layout effect's dependencies without size.
LayoutDepsNoSize(old, p, fresh) ==
    old.offsetY # p.offsetY \/ old.offsetX # p.offsetX \/ old.scale # p.scale

\* The layout effect's dependencies [size, offsetY, offsetX, scale]: size is
\* a new array when text or font changed, and may be one otherwise (fresh).
LayoutDepsChanged(old, p, fresh) ==
    \/ old.text # p.text \/ old.font # p.font \/ fresh
    \/ old.offsetY # p.offsetY \/ old.offsetX # p.offsetX \/ old.scale # p.scale

\* The edit-mode effect's dependencies [isEditing, onBlur].
EffectDepsChanged(old, p) ==
    old.isEditing # p.isEditing \/ old.onBlur # p.onBlur

\* Whether the edit-mode effect schedules a frame callback.
EffectSchedules(p) == p.isEditing

\* The edit-mode effect without its else branch.
effectSchedulingOnly(w, p) ==
    LET w1 == log(w, "useEffect")
    IN  IF EffectSchedules(p) THEN log(w1, "requestAnimationFrame") ELSE w1

\* The edit-mode effect's body: schedule a frame callback, or call onBlur.
effect(w, p) ==
    LET w1 == log(w, "useEffect")
    IN  IF EffectSchedules(p) THEN log(w1, "requestAnimationFrame")
        ELSE optionalCall(w1, p.onBlur)

\* The render mounts the textarea (isEditing): defaultValue={text}, autoFocus.
\* The caret starts at one end of the value (caretAtEnd).
mountTextArea(w, p, caretAtEnd) ==
    LET c == IF caretAtEnd THEN Len(p.text) ELSE 0
    IN  focus([w EXCEPT !.rInput = "textarea",
                        !.textarea = [value |-> p.text, selectionStart |-> c,
                                      selectionEnd |-> c],
                        !.trace = Append(@, "mount")],
              p.isEditing)

\* The render unmounts the textarea.  Removing the focused element moves
\* the focus to the body; whether a blur event fires is up to the browser
\* (removalBlur), and the handler it reaches is the last render's.
unmountTextArea(w, onBlur, removalBlur) ==
    LET w1 == IF removalBlur THEN blur(w, onBlur) ELSE w
    IN  [w1 EXCEPT !.rInput = "null", !.textarea = NoTextArea,
                   !.activeElement = "body", !.trace = Append(@, "unmount")]

\* The widget is unmounted: its textarea, if any, goes as in a render that
\* unmounts it.  The effects have no cleanup, so nothing else runs and the
\* frame callbacks requested stay requested.
unmount(w, onBlur, removalBlur) ==
    IF w.rInput = "textarea" THEN unmountTextArea(w, onBlur, removalBlur)
    ELSE log(w, "unmount")

\* The commit of a render with props p after one with props old.
commit(w, old, p, caretAtEnd, removalBlur) ==
    LET w1 == IF p.isEditing /\ ~old.isEditing THEN mountTextArea(w, p, caretAtEnd)
              ELSE IF ~p.isEditing /\ old.isEditing
                   THEN unmountTextArea(w, old.onBlur, removalBlur)
              ELSE w
    IN  IF EffectDepsChanged(old, p) THEN effect(w1, p) ELSE w1

\* ------------------------------------------------------------- history

OnBlurCalls(trace) == Count(trace, "onBlur")
Scheduled(trace) == Count(trace, "requestAnimationFrame")

NoHist == [phase |-> "idle", calls |-> 0, cb |-> NoCallback, entered |-> FALSE]

\* hist after an action (kind and e name it, trace is what it called,
\* editingAfter is the isEditing prop after it).  An exit starts at an Escape
\* keydown and lasts over the renders that follow, up to the one with
\* isEditing false; calls counts the onBlur invocations over it.  entered
\* marks an isEditing false -> true transition until the next frame callback.
NextHist(kind, e, trace, editingAfter) ==
    LET n == OnBlurCalls(trace)
        entered ==
            IF kind = "render" /\ ~props.isEditing /\ editingAfter THEN TRUE
            ELSE IF kind = "frame" THEN FALSE
            ELSE hist.entered
    IN  IF kind = "keydown" /\ e.key = "Escape" /\ props.isEditing
        THEN [phase |-> "exiting", calls |-> n, cb |-> props.onBlur,
              entered |-> entered]
        ELSE IF hist.phase = "exiting" /\ kind = "render"
        THEN [phase |-> IF editingAfter THEN "exiting" ELSE "done",
              calls |-> hist.calls + n, cb |-> hist.cb, entered |-> entered]
        ELSE [NoHist EXCEPT !.entered = entered]

\* Which props a render changed, as far as the claims tell them apart.
ChangeClass(old, p) ==
    LET changed == {n \in PropNames : old[n] # p[n]}
    IN  IF changed # {} /\ changed \subseteq {"scale", "offsetX", "offsetY"}
        THEN "layout" ELSE "other"

\* The state after the handlers of one action have run.
Apply(w, kind, e, class, p) ==
    /\ attached \/ kind = "frame"
    /\ attached' = (attached /\ kind # "unmount")
    /\ rIsMounted' = w.rIsMounted
    /\ rInput' = w.rInput
    /\ textarea' = w.textarea
    /\ activeElement' = w.activeElement
    /\ frames' = frames + Scheduled(w.trace) - (IF kind = "frame" THEN 1 ELSE 0)
    /\ ev' = [kind |-> kind, e |-> e, class |-> class, trace |-> w.trace,
              changes |-> w.changes,
              valueChanged |-> w.textarea.value # textarea.value,
              before |-> [activeElement |-> activeElement,
                          isEditing |-> props.isEditing,
                          hadOnBlur |-> props.onBlur # NoCallback,
                          entered |-> hist.entered]]
    /\ hist' = NextHist(kind, e, w.trace, p.isEditing)
    /\ props' = p

\* ------------------------------------------------------------------ Init

\* The state after the first render (props from P) has been committed.
InitOver(P) ==
    \E p \in P, caretAtEnd \in BOOLEAN :
        LET blank == [textarea |-> NoTextArea, rInput |-> "null",
                      activeElement |-> "body", rIsMounted |-> FALSE,
                      trace |-> <<>>, changes |-> <<>>]
            w0 == IF p.isEditing THEN mountTextArea(blank, p, caretAtEnd) ELSE blank
            w == effect(w0, p)
        IN  /\ caretAtEnd => p.isEditing /\ p.text # <<>>
            /\ props = p
            /\ rIsMounted = w.rIsMounted
            /\ rInput = w.rInput
            /\ textarea = w.textarea
            /\ activeElement = w.activeElement
            /\ style = applyStyle(p)
            /\ frames = Scheduled(w.trace)
            /\ attached = TRUE
            /\ ev = [kind |-> "mount", e |-> NoKey, class |-> "other",
                     trace |-> w.trace, changes |-> w.changes,
                     valueChanged |-> FALSE,
                     before |-> [activeElement |-> "body", isEditing |-> FALSE,
                                 hadOnBlur |-> FALSE, entered |-> FALSE]]
            /\ hist = NoHist

\* --------------------------------------------------------------- actions

\* The parent renders the widget with new props from P (React.memo skips
\* equal ones).
RenderOver(P) ==
    \E p \in P \ {props}, fresh \in BOOLEAN, caretAtEnd \in BOOLEAN,
       removalBlur \in BOOLEAN :
        LET w == commit(World, props, p, caretAtEnd, removalBlur)
        IN  /\ caretAtEnd => p.isEditing /\ ~props.isEditing /\ p.text # <<>>
            /\ removalBlur => ~p.isEditing /\ props.isEditing /\ activeElement = "textarea"
            /\ fresh => ~LayoutDepsChanged(props, p, FALSE)
            /\ frames + Scheduled(w.trace) <= MaxFrames
            /\ style' = IF LayoutDepsChanged(props, p, fresh) THEN applyStyle(p) ELSE style
            /\ Apply(w, "render", NoKey, ChangeClass(props, p), p)

\* A text-change event: the user's input gave the textarea the value v of V.
ChangeEventOver(V) ==
    \E v \in V \ {textarea.value} :
        /\ rInput = "textarea" /\ activeElement = "textarea"
        /\ Apply(handleChange([World EXCEPT !.textarea =
                     [value |-> v, selectionStart |-> Len(v), selectionEnd |-> Len(v)]]),
                 "change", NoKey, "other", props)
        /\ UNCHANGED style

\* The values undo or redo may give the textarea: any of V, or the same one.
HistoryValues(e, V) ==
    IF ~NotMeta(e) /\ IsUndoRedo(e) THEN V \cup {textarea.value} ELSE {textarea.value}

\* A keydown event (one of E) on the textarea, which has the focus.
KeyDownOver(E, V) ==
    \E e \in E :
        \E v \in HistoryValues(e, V) :
            /\ rInput = "textarea" /\ activeElement = "textarea"
            /\ IsTab(e) /\ ~e.shiftKey => Len(textarea.value) < MaxLen
            /\ Apply(handleKeyDown(World, e, props.onBlur, v), "keydown", e, "other", props)
            /\ UNCHANGED style

\* A blur event: the focus leaves the textarea.
BlurEvent ==
    /\ rInput = "textarea" /\ activeElement = "textarea"
    /\ Apply(blur(World, props.onBlur), "blur", NoKey, "other", props)
    /\ UNCHANGED style

\* A focus event: the user focuses the textarea.
FocusEvent ==
    /\ rInput = "textarea" /\ activeElement = "body"
    /\ Apply(focus(World, props.isEditing), "focus", NoKey, "other", props)
    /\ UNCHANGED style

\* A pointer-down event on the textarea.
PointerDown ==
    /\ rInput = "textarea"
    /\ Apply(handlePointerDown(World, props.isEditing), "pointerdown", NoKey, "other", props)
    /\ UNCHANGED style

\* The user moves the caret or selects a range in the focused textarea.
Select ==
    \E s \in 0..Len(textarea.value), t \in 0..Len(textarea.value) :
        /\ rInput = "textarea" /\ activeElement = "textarea"
        /\ s <= t
        /\ <<s, t>> # <<textarea.selectionStart, textarea.selectionEnd>>
        /\ Apply([World EXCEPT !.textarea.selectionStart = s,
                               !.textarea.selectionEnd = t],
                 "select", NoKey, "other", props)
        /\ UNCHANGED style

\* The browser runs a pending animation-frame callback.
FrameCallback ==
    /\ frames > 0
    /\ Apply(frameCallback(World, props.isEditing), "frame", NoKey, "other", props)
    /\ UNCHANGED style

\* The parent removes the widget from the tree.
Unmount ==
    \E removalBlur \in BOOLEAN :
        /\ removalBlur => activeElement = "textarea"
        /\ Apply(unmount(World, props.onBlur, removalBlur), "unmount", NoKey, "other", props)
        /\ UNCHANGED style

\* ------------------------------------------------------- specifications

\* The widget's lifecycle: every event, the keys that act, short input.
Init == InitOver(CoreProps)
Render == RenderOver(CoreProps)
ChangeEvent == ChangeEventOver(ShortTexts)
KeyDown == KeyDownOver(CoreKeys, ShortTexts)

Next ==
    \/ Render
    \/ ChangeEvent
    \/ KeyDown
    \/ BlurEvent
    \/ FocusEvent
    \/ PointerDown
    \/ Select
    \/ FrameCallback
    \/ Unmount

Spec == Init /\ [][Next]_vars

\* The keyboard: every key with every combination of modifiers.
InitKeys == InitOver(KeyProps)
RenderKeys == RenderOver(KeyProps)
KeyDownKeys == KeyDownOver(KeyEvents, ShortTexts)

NextKeys ==
    \/ RenderKeys
    \/ ChangeEvent
    \/ KeyDownKeys
    \/ BlurEvent
    \/ FocusEvent
    \/ FrameCallback

SpecKeys == InitKeys /\ [][NextKeys]_vars

\* The layout: every change of text, font, scale and offsets.
InitLayout == InitOver(LayoutProps)
RenderLayout == RenderOver(LayoutProps)

NextLayout ==
    \/ RenderLayout
    \/ ChangeEvent
    \/ BlurEvent
    \/ FocusEvent
    \/ FrameCallback

SpecLayout == InitLayout /\ [][NextLayout]_vars

\* The text: a widget in edit mode whose textarea takes every value.
InitText == InitOver(EditingProps)
ChangeEventText == ChangeEventOver(Texts)
KeyDownText == KeyDownOver(TextKeys, Texts)

NextText ==
    \/ ChangeEventText
    \/ KeyDownText
    \/ BlurEvent
    \/ FocusEvent
    \/ FrameCallback

SpecText == InitText /\ [][NextText]_vars

\* The props: every prop but onBlur changes, under every event.
InitWide == InitOver(WideProps)
RenderWide == RenderOver(WideProps)
KeyDownWide == KeyDownOver(WideKeys, ShortTexts)

NextWide ==
    \/ RenderWide
    \/ ChangeEvent
    \/ KeyDownWide
    \/ BlurEvent
    \/ FocusEvent
    \/ PointerDown
    \/ FrameCallback

SpecWide == InitWide /\ [][NextWide]_vars

\* ---------------------------------------------------------------- claims

Called(call) == call \in Range(ev.trace)
Calls(call) == Count(ev.trace, call)
Selection == <<textarea.selectionStart, textarea.selectionEnd>>
WholeSelected == Selection = <<0, Len(textarea.value)>>
\* The place of the first call of that name in the last action's trace.
Place(call) == CHOOSE i \in 1..Len(ev.trace) : ev.trace[i] = call /\ \A j \in 1..(i - 1) : ev.trace[j] # call

\* C1: every value handed to onChange, by a text-change event or by a Tab
\* keydown, is normalizeText of the textarea's value at that moment (every
\* onChange call is one of these), and normalizing it again changes nothing.
C1_DeliveredNormalized ==
    /\ Calls("onChange") = Len(ev.changes)
    /\ \A i \in 1..Len(ev.changes) :
          /\ ev.changes[i].delivered = normalizeText(ev.changes[i].raw)
          /\ normalizeText(ev.changes[i].delivered) = ev.changes[i].delivered
          /\ CR \notin Range(ev.changes[i].delivered)
    /\ ev.changes # <<>> => ev.changes[Len(ev.changes)].raw = textarea.value

\* C1 witness: a text-change event whose raw value CR LF was delivered as LF.
C1_Witness ==
    /\ ev.kind = "change"
    /\ textarea.value = <<CR, LF>>
    /\ ev.changes = <<[via |-> "handleChange", raw |-> <<CR, LF>>, delivered |-> <<LF>>]>>

\* C2: an exit that an Escape keydown starts, with an onBlur callback
\* supplied, has invoked onBlur exactly once when the widget has re-rendered
\* with isEditing false.
C2_EscapeBlursOnce ==
    (hist.phase = "done" /\ hist.cb # NoCallback /\ props.onBlur = hist.cb)
        => hist.calls = 1

\* C3 as stated: the first frame callback to run after isEditing went from
\* false to true leaves the textarea focused with its whole content selected.
C3_FocusOnNextFrame ==
    (ev.kind = "frame" /\ ev.before.entered)
        => (rInput = "textarea" /\ activeElement = "textarea" /\ WholeSelected)

\* C3 amended: the same, provided isEditing is still true (the textarea is
\* still mounted) when that frame callback runs.
C3_FocusOnNextFrameWhileEditing ==
    (ev.kind = "frame" /\ ev.before.entered /\ props.isEditing /\ attached)
        => (rInput = "textarea" /\ activeElement = "textarea" /\ WholeSelected)

\* C3 witness: the frame callback after an entry to edit mode found the
\* textarea without focus and left it focused with its content selected.
C3_Witness ==
    /\ ev.kind = "frame" /\ ev.before.entered /\ props.isEditing
    /\ ev.before.activeElement = "body" /\ activeElement = "textarea"
    /\ Len(textarea.value) = MaxLen /\ WholeSelected

\* C4 as stated: a keydown of copy, paste, undo, redo or select-all (c, v, z,
\* Shift+z, a with the Meta key held) is neither stopped nor default-prevented.
C4_ShortcutsPassThrough ==
    (ev.kind = "keydown" /\ ev.e.metaKey /\ ev.e.key \in {"c", "v", "z", "a"})
        => (~Called("stopPropagation") /\ ~Called("preventDefault"))

\* C4 amended: with the Meta key held, copy, paste and select-all (c, v, a)
\* are neither stopped nor default-prevented, while undo and redo (z,
\* Shift+z) run the editing command and are both stopped and prevented.
C4_MetaShortcuts ==
    /\ (ev.kind = "keydown" /\ ev.e.metaKey /\ ev.e.key \in {"c", "v", "a"})
          => (~Called("stopPropagation") /\ ~Called("preventDefault"))
    /\ (ev.kind = "keydown" /\ ev.e.metaKey /\ ev.e.key = "z")
          => /\ Called("stopPropagation") /\ Called("preventDefault")
             /\ Calls("undo") + Calls("redo") = 1
             /\ Called("redo") <=> ev.e.shiftKey

\* C4 witness: Meta+v went through the handler untouched.
C4_Witness ==
    /\ ev.kind = "keydown" /\ ev.e.key = "v" /\ ev.e.metaKey
    /\ ev.trace = <<"handleKeyDown">>

\* C5: a Tab keydown prevents the default (the focus stays), makes exactly
\* one edit, indent without Shift and unindent with it, and then calls
\* onChange exactly once, with the (normalized) value the edit left.
C5_TabEdits ==
    (ev.kind = "keydown" /\ ev.e.key = "Tab")
        => /\ Called("preventDefault") /\ activeElement = "textarea"
           /\ Calls("indent") + Calls("unindent") = 1
           /\ Called("unindent") <=> ev.e.shiftKey
           /\ ~ev.e.shiftKey => ev.valueChanged
           /\ Calls("onChange") = 1
           /\ Place("preventDefault") < Place(IF ev.e.shiftKey THEN "unindent" ELSE "indent")
           /\ Place(IF ev.e.shiftKey THEN "unindent" ELSE "indent") < Place("onChange")
           /\ Len(ev.changes) = 1
           /\ ev.changes[1].via = "handleKeyDown"
           /\ ev.changes[1].raw = textarea.value
           /\ ev.changes[1].delivered = normalizeText(textarea.value)

\* C5 witness: Shift+Tab removed a level of indentation and the text left
\* was handed to onChange.
C5_Witness ==
    /\ ev.kind = "keydown" /\ ev.e.key = "Tab" /\ ev.e.shiftKey
    /\ ev.valueChanged /\ textarea.value = <<"a">>
    /\ ev.changes = <<[via |-> "handleKeyDown", raw |-> <<"a">>, delivered |-> <<"a">>]>>

\* C6: Escape, Ctrl+Enter and Cmd+Enter blur the textarea and do nothing to
\* the text (no edit, no onChange, no default prevented); an Enter without
\* Ctrl and Meta does not blur.
C6_ExitKeys ==
    /\ (ev.kind = "keydown"
        /\ (ev.e.key = "Escape" \/ (ev.e.key = "Enter" /\ (ev.e.ctrlKey \/ ev.e.metaKey))))
          => /\ Called("blur()") /\ activeElement = "body"
             /\ ~ev.valueChanged /\ ev.changes = <<>>
             /\ ~Called("onChange") /\ ~Called("indent") /\ ~Called("unindent")
             /\ ~Called("preventDefault")
    /\ (ev.kind = "keydown" /\ ev.e.key = "Enter" /\ ~ev.e.ctrlKey /\ ~ev.e.metaKey)
          => (~Called("blur()") /\ ~Called("handleBlur") /\ activeElement = "textarea")

\* C6 witness: Cmd+Enter took the focus from the textarea.
C6_Witness ==
    /\ ev.kind = "keydown" /\ ev.e.key = "Enter" /\ ev.e.metaKey /\ ~ev.e.ctrlKey
    /\ ev.before.activeElement = "textarea" /\ activeElement = "body"
    /\ Called("handleBlur")

\* C7: a render that changes only scale, offsetX or offsetY leaves the
\* transform scale(scale, scale) translate(offsetX, offsetY) of the new
\* props applied, calls no onChange, leaves the textarea's value alone and
\* leaves the size of the (unchanged) text and font applied.
C7_LayoutOnlyRender ==
    (ev.kind = "render" /\ ev.class = "layout")
        => /\ style.transform =
                <<"scale", props.scale, props.scale, "translate", props.offsetX, props.offsetY>>
           /\ ev.changes = <<>> /\ ~Called("onChange") /\ ~ev.valueChanged
           /\ <<style.width, style.height>> = getTextLabelSize(props.text, props.font)

\* C7 witness: a render that changed only scale and offsets, with the new
\* transform applied.
C7_Witness ==
    /\ ev.kind = "render" /\ ev.class = "layout"
    /\ props.scale = 2 /\ props.offsetX = 1 /\ props.offsetY = 0
    /\ style.transform = <<"scale", 2, 2, "translate", 1, 0>>

\* C8: after every committed render the width and height applied are
\* getTextLabelSize of the current text and font props.
C8_SizeApplied ==
    <<style.width, style.height>> = getTextLabelSize(props.text, props.font)

\* C8 witness: a render that changed more than the layout props has the
\* size of the two-line text in the large font applied.
C8_Witness ==
    /\ ev.kind = "render" /\ ev.class = "other"
    /\ props.text = <<"a", LF>> /\ props.font = "f2"
    /\ style.width = 2 /\ style.height = 4

\* C9: every blur event runs handleBlur, which collapses the selection to
\* (0, 0) and then calls onBlur once if one was supplied (and not otherwise).
C9_BlurCollapses ==
    /\ \A i \in 1..Len(ev.trace) :
          ev.trace[i] = "handleBlur"
              => /\ i < Len(ev.trace) /\ ev.trace[i + 1] = "setSelectionRange"
                 /\ ev.before.hadOnBlur
                       => (i + 2 <= Len(ev.trace) /\ ev.trace[i + 2] = "onBlur")
                 /\ ~ev.before.hadOnBlur
                       => ~(i + 2 <= Len(ev.trace) /\ ev.trace[i + 2] = "onBlur")
    /\ Calls("handleBlur") <= 1
    /\ Calls("setSelectionRange") = Calls("handleBlur")
    /\ ev.kind \in {"blur", "keydown"} =>
          Calls("onBlur") = (IF ev.before.hadOnBlur THEN Calls("handleBlur") ELSE 0)
    /\ ev.kind = "blur" => Called("handleBlur")
    /\ (Called("handleBlur") /\ rInput = "textarea") => Selection = <<0, 0>>

\* C9 witness: a blur event on a textarea holding text collapsed the
\* selection and called onBlur.
C9_Witness ==
    /\ ev.kind = "blur" /\ Len(textarea.value) = MaxLen
    /\ ev.trace = <<"handleBlur", "setSelectionRange", "onBlur">>
    /\ Selection = <<0, 0>>

\* C10: every pointer-down event on the textarea while isEditing is true
\* has its propagation stopped.
C10_PointerDownSwallowed ==
    (ev.kind = "pointerdown" /\ props.isEditing) => Called("stopPropagation")

\* C10 witness: a pointer-down on the textarea was stopped.
C10_Witness ==
    /\ ev.kind = "pointerdown" /\ props.isEditing
    /\ ev.trace = <<"handlePointerDown", "stopPropagation">>

\* C11: with no onBlur callback supplied nothing throws and nothing is
\* called in its place, neither by a blur event nor by the edit-mode effect
\* run with isEditing false, and a blur event still collapses the selection
\* to (0, 0).
C11_AbsentOnBlur ==
    /\ ~Called("TypeError")
    /\ (props.onBlur = NoCallback /\ ~ev.before.hadOnBlur)
          => ~Called("onBlur")
    /\ (props.onBlur = NoCallback /\ ~props.isEditing /\ Called("useEffect"))
          => ev.trace[Len(ev.trace)] = "useEffect"
    /\ (props.onBlur = NoCallback /\ ~ev.before.hadOnBlur /\ Called("handleBlur"))
          => /\ Called("setSelectionRange")
             /\ ev.trace[Len(ev.trace)] \in {"setSelectionRange", "unmount", "useEffect"}
             /\ (rInput = "textarea" => Selection = <<0, 0>>)

\* C11 witness: a blur event with no onBlur supplied collapsed the selection
\* of a textarea holding text and called nothing else.
C11_Witness ==
    /\ ev.kind = "blur" /\ props.onBlur = NoCallback
    /\ Len(textarea.value) = MaxLen
    /\ ev.trace = <<"handleBlur", "setSelectionRange">>
    /\ Selection = <<0, 0>>

\* C12: a keydown whose key is not Meta and whose metaKey is false has its
\* propagation stopped, once and before anything else the handler does,
\* whatever the key and the Ctrl and Shift modifiers.
C12_PlainKeysStopped ==
    (ev.kind = "keydown" /\ ev.e.key # "Meta" /\ ~ev.e.metaKey)
        => /\ Calls("stopPropagation") = 1
           /\ ev.trace[1] = "handleKeyDown"
           /\ ev.trace[2] = "stopPropagation"

\* C12 witness: Ctrl+Shift+c was stopped and nothing else was done with it.
C12_Witness ==
    /\ ev.kind = "keydown" /\ ev.e = Key("c", FALSE, TRUE, TRUE)
    /\ ev.trace = <<"handleKeyDown", "stopPropagation">>

\* C13: a keydown of z with the Meta key held runs exactly one editing
\* command, redo with Shift and undo without, then stops the propagation
\* and prevents the default, once each, and returns: the handler neither
\* blurs the textarea nor edits it nor calls onChange itself (a call made
\* during the keydown comes from handleChange, run for the text-change event
\* the editing command fires when it changes the value).
C13_UndoRedoLocal ==
    (ev.kind = "keydown" /\ ev.e.key = "z" /\ ev.e.metaKey)
        => /\ Calls("undo") + Calls("redo") = 1
           /\ Called("redo") <=> ev.e.shiftKey
           /\ ev.trace[2] \in {"undo", "redo"}
           /\ Calls("stopPropagation") = 1 /\ Calls("preventDefault") = 1
           /\ SubSeq(ev.trace, Len(ev.trace) - 1, Len(ev.trace))
                 = <<"stopPropagation", "preventDefault">>
           /\ ~Called("blur()") /\ ~Called("handleBlur") /\ ~Called("onBlur")
           /\ ~Called("indent") /\ ~Called("unindent")
           /\ activeElement = "textarea" /\ rInput = "textarea"
           /\ \A i \in 1..Len(ev.changes) : ev.changes[i].via = "handleChange"
           /\ Calls("onChange") = Calls("handleChange")
           /\ Calls("onChange") = IF ev.valueChanged THEN 1 ELSE 0

\* C13 witness: Meta+Shift+z ran redo, which left the value alone, and was
\* stopped and prevented.
C13_Witness ==
    /\ ev.kind = "keydown" /\ ev.e = Key("z", TRUE, FALSE, TRUE)
    /\ ev.trace = <<"handleKeyDown", "redo", "stopPropagation", "preventDefault">>
    /\ activeElement = "textarea"

\* C14: onChange is called only by handleChange, run for a text-change
\* event, and by the Tab branch of handleKeyDown after its edit. No render
\* (whatever props change), mount, focus, blur or pointer-down event and no
\* frame callback calls it; a keydown other than Tab calls it only through
\* handleChange, for the text-change event an undo or redo command fires.
C14_OnChangeSources ==
    /\ Calls("onChange") = Len(ev.changes)
    /\ \A i \in 1..Len(ev.trace) :
          ev.trace[i] = "onChange"
              => i > 1 /\ ev.trace[i - 1] \in {"handleChange", "indent", "unindent"}
    /\ ev.kind \notin {"change", "keydown"} => ~Called("onChange")
    /\ (ev.kind = "keydown" /\ ev.e.key # "Tab")
          => /\ \A i \in 1..Len(ev.changes) : ev.changes[i].via = "handleChange"
             /\ Called("onChange") => Called("undo") \/ Called("redo")
    /\ (ev.kind = "keydown" /\ ev.e.key = "Tab")
          => /\ Calls("onChange") = 1
             /\ ev.changes[1].via = "handleKeyDown"
    /\ ev.kind = "change" => Calls("onChange") = 1 /\ Calls("handleChange") = 1

\* C14 witness: a render that changed the text prop of a widget in edit mode
\* called nothing but the layout effect's work, and no onChange.
C14_Witness ==
    /\ ev.kind = "render" /\ ev.class = "layout"
    /\ props.isEditing /\ ev.before.isEditing
    /\ props.text # textarea.value
    /\ ~Called("onChange") /\ ev.changes = <<>>

\* What the edit-mode effect called, if it ran in the last action.
AfterEffect == SubSeq(ev.trace, Place("useEffect") + 1, Len(ev.trace))

\* C15: the edit-mode effect runs at a mount with isEditing false, at a
\* render that takes isEditing from true to false and at a render that
\* changes onBlur while isEditing stays false; whenever it runs with
\* isEditing false it calls onBlur once if one is supplied, and nothing if
\* not, whether or not the textarea had the focus, and it requests no
\* animation frame.
C15_EffectWhenNotEditing ==
    /\ (ev.kind = "mount" /\ ~props.isEditing) => Called("useEffect")
    /\ (ev.kind = "render" /\ ev.before.isEditing /\ ~props.isEditing)
          => Called("useEffect")
    /\ (ev.kind = "render" /\ ~ev.before.isEditing /\ ~props.isEditing
            /\ ev.before.hadOnBlur # (props.onBlur # NoCallback))
          => Called("useEffect")
    /\ (Called("useEffect") /\ ~props.isEditing)
          => /\ Calls("useEffect") = 1
             /\ AfterEffect = IF props.onBlur # NoCallback THEN <<"onBlur">> ELSE <<>>
             /\ ~Called("requestAnimationFrame")

\* C15 witness: isEditing went from true to false after the textarea had
\* already lost the focus, and the effect still called onBlur.
C15_Witness ==
    /\ ev.kind = "render" /\ ev.before.isEditing /\ ~props.isEditing
    /\ ev.before.activeElement = "body"
    /\ ev.trace = <<"unmount", "useEffect", "onBlur">>

\* A step that is a frame callback run with no textarea mounted: isEditing
\* is false again, or the widget has been unmounted.
C16_LateFrame == ev'.kind = "frame" /\ (~props.isEditing \/ ~attached)

\* C16: a requested frame callback can always run, and no step but its own
\* run takes it away, so one requested before isEditing returned to false
\* or the widget was unmounted still runs; run then, it focuses and selects
\* nothing, calls neither onChange nor onBlur, and changes nothing but the
\* mounted flag, which it sets.
C16_FrameNeverCancelled ==
    /\ [](frames > 0 => ENABLED FrameCallback)
    /\ [][/\ ev'.kind # "frame" => frames' >= frames
          /\ C16_LateFrame
                => /\ ev'.trace = <<"frame">> /\ ev'.changes = <<>>
                   /\ rIsMounted'
                   /\ frames' = frames - 1
                   /\ rInput' = "null" /\ textarea' = NoTextArea
                   /\ UNCHANGED <<props, rInput, textarea, activeElement,
                                  style, attached>>]_vars

\* C16 witness: a frame callback requested on entering edit mode ran after
\* isEditing had returned to false, and did nothing but set the flag.
C16_Witness ==
    /\ ev.kind = "frame" /\ ev.before.entered /\ ~props.isEditing /\ attached
    /\ ev.trace = <<"frame">> /\ rIsMounted
    /\ rInput = "null" /\ activeElement = "body"

\* handleFocus selected the content in the last action.
C17_FocusSelected ==
    \E i \in 1..(Len(ev.trace) - 1) :
        ev.trace[i] = "handleFocus" /\ ev.trace[i + 1] = "select"

\* C17, in every state: handleFocus selects the content only with
\* isEditing true, the mounted flag set and the textarea the active element
\* (and a focus event then does select it); the flag is false after the
\* mount, so the focus event of autoFocus selects nothing.
C17_FocusGuard ==
    /\ C17_FocusSelected
          => /\ props.isEditing /\ rIsMounted
             /\ activeElement = "textarea" /\ WholeSelected
    /\ ev.kind = "focus"
          => (C17_FocusSelected <=> props.isEditing /\ rIsMounted)
    /\ ev.kind = "mount" => ~rIsMounted /\ ~Called("select")

\* C17: the focus guard holds in every state, and the mounted flag changes
\* only from false to true and only in a frame callback.
C17_MountedFlag ==
    /\ []C17_FocusGuard
    /\ [][rIsMounted' # rIsMounted => rIsMounted' /\ ev'.kind = "frame"]_vars

\* C17 witness: a focus event reached the textarea in edit mode before any
\* frame callback had run, and the content was not selected.
C17_Witness ==
    /\ ev.kind = "focus" /\ props.isEditing /\ ~rIsMounted
    /\ ev.trace = <<"handleFocus">>
    /\ activeElement = "textarea"
    /\ textarea.value # <<>> /\ ~WholeSelected

====
